---- MODULE Spec2Model ----
(***************************************************************************)
(* A model of the metadata benchmark command `mdbench`                     *)
(* (cmd/bench_meta.go): the step sequencer, the namespace allocator, the   *)
(* cache purge, the fan-out/join workload driver and the metrics exporter. *)
(* Strings whose content matters (step tokens, paths, metric lines) are    *)
(* sequences of one-character strings.                                     *)
(***************************************************************************)
EXTENDS Integers, Sequences, FiniteSets, TLC

\* ------------------------------------------------------------------ bounds
MaxThreads == 2
MaxFiles == 2
MaxSteps == 2
\* passes of a worker's repeat loop that are explored (a repeat count of
\* uint(-1) never finishes)
RunCap == 2
MaxLines == 3

\* ------------------------------------------------------- program constants
stepCreate == 0
stepStat == 1
stepOpen == 2
stepRemove == 3
stepNum == 4

\* Go's uint is 64 bits wide; the model keeps the wrap-around of uint(n) for
\* a negative n at a width the model checker's integers can hold.
UintMod == 2 ^ 16

stepNames ==
    << <<"c","r","e","a","t","e">>, <<"s","t","a","t">>,
       <<"o","p","e","n">>, <<"r","e","m","o","v","e">> >>

\* ------------------------------------------------------- strings and numbers
DigitChars == <<"0", "1", "2", "3", "4", "5", "6", "7", "8", "9">>

IsDigit(c) == \E d \in 1..10 : DigitChars[d] = c

DigitVal(c) == (CHOOSE d \in 1..10 : DigitChars[d] = c) - 1

\* fmt.Sprintf("%d", n) for an unsigned n
RECURSIVE Itoa(_)
Itoa(n) ==
    IF n < 10 THEN <<DigitChars[n + 1]>>
    ELSE Itoa(n \div 10) \o <<DigitChars[(n % 10) + 1]>>

RECURSIVE ParseDigits(_, _)
ParseDigits(s, acc) ==
    IF s = <<>> THEN acc
    ELSE ParseDigits(Tail(s), acc * 10 + DigitVal(Head(s)))

\* strconv.Atoi: an optional sign, then at least one decimal digit
Atoi(s) ==
    LET signed == s # <<>> /\ Head(s) \in {"+", "-"}
        neg == s # <<>> /\ Head(s) = "-"
        body == IF signed THEN Tail(s) ELSE s
    IN  IF body = <<>> \/ (\E k \in 1..Len(body) : ~IsDigit(body[k]))
        THEN [err |-> TRUE, n |-> 0]
        ELSE [err |-> FALSE,
              n |-> IF neg THEN 0 - ParseDigits(body, 0) ELSE ParseDigits(body, 0)]

\* the conversion uint(n) of an int
ToUint(n) == IF n >= 0 THEN n % UintMod ELSE (n + UintMod) % UintMod

\* strings.IndexByte: the 0-based index of the first c in s, or -1
IndexByte(s, c) ==
    IF \E k \in 1..Len(s) : s[k] = c
    THEN (CHOOSE k \in 1..Len(s) : s[k] = c /\ \A m \in 1..(k - 1) : s[m] # c) - 1
    ELSE -1

\* strings.HasPrefix
HasPrefix(s, p) == Len(s) >= Len(p) /\ SubSeq(s, 1, Len(p)) = p

\* filepath.Join(d, name) of a clean absolute d and a single element name
Join(d, name) ==
    IF d = <<"/">> THEN d \o name ELSE d \o <<"/">> \o name

Str_meta_bench == <<"m","e","t","a","-","b","e","n","c","h","-">>
Str_file == <<"f","i","l","e","-">>

routine_dir_mut(dir, i) == Join(dir, Str_meta_bench \o Itoa(0))

routine_dir(dir, i) == Join(dir, Str_meta_bench \o Itoa(i))

filename(d, i) == Join(d, Str_file \o Itoa(i))

\* ------------------------------------------------------------ step tokens
Names_create == { <<"c","r","e","a","t","e">>, <<"c">> }
Names_stat == { <<"s","t","a","t">>, <<"s">> }
Names_open == { <<"o","p","e","n">>, <<"o">> }
Names_remove == { <<"r","e","m","o","v","e">>, <<"r","m">>, <<"r">>,
                  <<"d","e","l","e","t","e">>, <<"d","e","l">>, <<"d">> }

KnownName_mut(name) == TRUE

\* whether the switch on the step name has a case for it
KnownName(name) ==
    name \in Names_create \cup Names_stat \cup Names_open \cup Names_remove

\* the switch on the step name
KindOf(name) ==
    IF name \in Names_create THEN stepCreate
    ELSE IF name \in Names_stat THEN stepStat
    ELSE IF name \in Names_open THEN stepOpen
    ELSE stepRemove

ParseToken_mut(tok) ==
    LET p == IndexByte(tok, "*")
        name == IF p > 0 THEN SubSeq(tok, 1, p) ELSE tok
    IN  IF ~KnownName(name)
        THEN [fatal |-> TRUE, kind |-> 0, repeat |-> 0]
        ELSE [fatal |-> FALSE, kind |-> KindOf(name), repeat |-> 1]

\* one iteration of the parsing loop: the Step appended, or log.Fatal
ParseToken(tok) ==
    LET p == IndexByte(tok, "*")
        a == IF p > 0 THEN Atoi(SubSeq(tok, p + 2, Len(tok)))
             ELSE [err |-> FALSE, n |-> 1]
        name == IF p > 0 THEN SubSeq(tok, 1, p) ELSE tok
    IN  IF a.err \/ ~KnownName(name)
        THEN [fatal |-> TRUE, kind |-> 0, repeat |-> 0]
        ELSE [fatal |-> FALSE, kind |-> KindOf(name), repeat |-> ToUint(a.n)]

\* --------------------------------------------------------- metrics lines
MetricPrefix ==
    <<"j","u","i","c","e","f","s","_","m","e","t","a","_","o","p","s">>

RECURSIVE FilterLines(_)
FilterLines(body) ==
    IF body = <<>> THEN <<>>
    ELSE IF HasPrefix(Head(body), MetricPrefix)
         THEN <<Head(body)>> \o FilterLines(Tail(body))
         ELSE FilterLines(Tail(body))

\* what bufio.Scanner's loop delivers of a body: the lines in front of the
\* first line that does not fit its buffer (bufio.MaxScanTokenSize, 64 KiB),
\* where Scan returns false like at the end of the text; `long` holds the
\* positions of the lines of that length, whose first characters body shows
ScanLines(body, long) ==
    IF long \cap (1..Len(body)) = {} THEN body
    ELSE SubSeq(body, 1, (CHOOSE n \in long \cap (1..Len(body)) :
                             \A m \in long \cap (1..Len(body)) : n <= m) - 1)

\* the last position of c in s, or 0
LastIndex(s, c) ==
    IF \E n \in 1..Len(s) : s[n] = c
    THEN CHOOSE n \in 1..Len(s) : s[n] = c /\ \A m \in (n + 1)..Len(s) : s[m] # c
    ELSE 0

\* the directory in which the operating system creates a file of that path
DirOf(path) ==
    LET n == LastIndex(path, "/")
    IN  IF n = 0 THEN <<".">>
        ELSE IF n = 1 THEN <<"/">>
        ELSE SubSeq(path, 1, n - 1)

\* the directory a directory path names, with or without a trailing separator
CleanDir(path) ==
    IF Len(path) > 1 /\ path[Len(path)] = "/"
    THEN SubSeq(path, 1, Len(path) - 1) ELSE path

\* ------------------------------------------------------------------ state
VARIABLES
    ctx,        \* the command line: threads, files, steps, url, metrics, metric_out
    env,        \* the host: uid, goos, pid, flaky (calls may fail), body (metrics
                \* text), long (its lines over the scanner's limit), outExists
                \* (the metrics directory is there), tree0 (the namespace at
                \* the start)
    tree,       \* the benchmarked namespace: existing directories and files
    pc,         \* where metadataBench is
    bench,      \* the MetaBench value
    steps,      \* the parsed []Step
    pi,         \* index of the next token to parse
    si,         \* index of the step being run
    wg,         \* the WaitGroup counter of the running step
    tid,        \* the launch loop's counter
    timer,      \* "idle", "running" (start taken) or "stopped" (cost taken)
    workers,    \* per thread: st, r, fid
    crashing,   \* "" or how a failed operation is ending the process
    calls,      \* per path, the invocations of the running step and who made them
    log,        \* what the driver did, in order
    reports,    \* the throughput lines logged
    warnings,   \* the warnings logged by dropCaches
    exports     \* the metrics files written

vars == <<ctx, env, tree, pc, bench, steps, pi, si, wg, tid, timer, workers,
          crashing, calls, log, reports, warnings, exports>>

Tids == 0..(ctx.threads - 1)

AllFiles(dir, threads, files) ==
    { filename(routine_dir(dir, i), j) : i \in 0..(threads - 1), j \in 0..(files - 1) }

AllDirs(dir, threads) ==
    {dir} \cup { routine_dir(dir, i) : i \in 0..(threads - 1) }

Event(ev, n) == [ev |-> ev, step |-> si, n |-> n]

Terminal == {"invalid", "fatal", "aborted", "done"}

\* ------------------------------------------------------------------ inputs
Star(name, suffix) == name \o <<"*">> \o suffix

Tok_create == <<"c","r","e","a","t","e">>
Tok_stat == <<"s","t","a","t">>
Tok_open == <<"o","p","e","n">>
Tok_remove == <<"r","e","m","o","v","e">>
Tok_bogus == <<"b","o","g","u","s">>

DriverTokens ==
    { Tok_create, Tok_stat, <<"r","m">>,
      Star(Tok_create, <<"2">>), Star(<<"d">>, <<"2">>),
      Star(<<"s">>, <<"0">>), Star(<<"c">>, <<"-","1">>),
      Tok_bogus }

RoundTrip == <<Tok_create, Tok_stat, Tok_open, Tok_remove>>

SeqsUpTo(S, n) == UNION { [1..k -> S] : k \in 0..n }

StepLists == SeqsUpTo(DriverTokens, MaxSteps) \cup {RoundTrip}

Line_a == MetricPrefix \o <<"_","a"," ","1">>
Line_b == <<"g","o","_","t","h","r","e","a","d","s"," ","9">>
Line_c == MetricPrefix \o <<" ","2">>
Line_d == <<"j","u","i","c","e","f","s","_","m","e","t","a">>

MetricsBody == <<Line_b, Line_a, Line_d, Line_c, Line_a>>

Linux == [uid |-> 0, goos |-> "linux"]
Darwin == [uid |-> 1000, goos |-> "darwin"]
Windows == [uid |-> 0, goos |-> "windows"]

NoMetrics == [metrics |-> "", metric_out |-> <<>>]
WithMetrics == [metrics |-> "h", metric_out |-> <<"o","/">>]

\* backend URL, host and metrics flags of a run
Setups ==
    { [url |-> "redis", host |-> Linux, m |-> NoMetrics],
      [url |-> "redis", host |-> Linux, m |-> WithMetrics],
      [url |-> "", host |-> Linux, m |-> NoMetrics],
      [url |-> "", host |-> Linux, m |-> WithMetrics],
      [url |-> "", host |-> Darwin, m |-> NoMetrics],
      [url |-> "", host |-> Windows, m |-> NoMetrics] }

\* the trees a run may start on: nothing, the directories alone, every file,
\* every file but one
InitTrees(dir, threads, files) ==
    { [dirs |-> {}, files |-> {}] } \cup
    { [dirs |-> AllDirs(dir, threads), files |-> F] :
        F \in { {}, AllFiles(dir, threads, files),
                AllFiles(dir, threads, files)
                    \ (IF threads > 0 /\ files > 0
                       THEN {filename(routine_dir(dir, threads - 1), files - 1)}
                       ELSE {}) } }

FullTree(dir, threads, files) ==
    [dirs |-> AllDirs(dir, threads), files |-> AllFiles(dir, threads, files)]

\* the metrics endpoint's text and the state of the output directory
FixedScrape == [body |-> MetricsBody, long |-> {}, outExists |-> FALSE]

InitWith(lists, tcounts, fcounts, setups, flakies, anyTree, scrapes) ==
    /\ \E t \in tcounts, f \in fcounts, l \in lists, su \in setups, fl \in flakies,
          sc \in scrapes :
          /\ ctx = [threads |-> t, files |-> f, steps |-> l, url |-> su.url,
                    metrics |-> su.m.metrics, metric_out |-> su.m.metric_out,
                    path |-> <<"/","m">>]
          /\ tree \in (IF anyTree THEN InitTrees(<<"/","m">>, t, f)
                                  ELSE {FullTree(<<"/","m">>, t, f)})
          /\ env = [uid |-> su.host.uid, goos |-> su.host.goos, pid |-> 7,
                    flaky |-> fl, body |-> sc.body, long |-> sc.long,
                    outExists |-> sc.outExists, tree0 |-> tree]
    /\ pc = "start"
    /\ bench = [dir |-> <<>>, threads |-> 0, files |-> 0, pid |-> 0,
                purgeArgs |-> <<>>, jfs |-> FALSE]
    /\ steps = <<>>
    /\ pi = 0
    /\ si = 0
    /\ wg = 0
    /\ tid = 0
    /\ timer = "idle"
    /\ workers = [i \in Tids |-> [st |-> "none", r |-> 0, fid |-> 0, step |-> 0]]
    /\ crashing = ""
    /\ calls = <<>>
    /\ log = <<>>
    /\ reports = <<>>
    /\ warnings = 0
    /\ exports = <<>>

Init ==
    InitWith(StepLists, 0..MaxThreads, 0..MaxFiles, Setups, BOOLEAN, TRUE,
             {FixedScrape})

\* the tokens of the parsing runs: every step name, names with a repeat
\* count, and tokens the sequencer has to refuse or converts oddly
ParseTokens ==
    Names_create \cup Names_stat \cup Names_open \cup Names_remove \cup
    { Star(Tok_create, <<"3">>), Star(<<"c">>, <<"1","2">>), Star(<<"s">>, <<"2">>),
      Star(Tok_open, <<"1">>), Star(<<"r","m">>, <<"3">>),
      Star(<<"d","e","l">>, <<"1","0">>) } \cup
    { Tok_bogus, <<"*","3">>, Star(<<"c">>, <<>>), Star(<<"c">>, <<"x">>),
      Star(<<"c">>, <<"0">>), Star(<<"c">>, <<"-","1">>), Star(<<"c">>, <<"+","2">>) }

InitParse ==
    InitWith(SeqsUpTo(ParseTokens, MaxSteps), {1}, {1},
             {[url |-> "", host |-> Linux, m |-> WithMetrics]}, {FALSE}, FALSE,
             {FixedScrape})

Line_e == <<"#"," ">> \o MetricPrefix

Lines == {Line_a, Line_b, Line_c, Line_d, Line_e}

\* metrics texts of up to MaxLines lines, at most one of them over the
\* scanner's limit, and an output directory that is there or not
Scrapes ==
    { [body |-> b, long |-> L, outExists |-> e] :
        b \in SeqsUpTo(Lines, MaxLines),
        L \in {{}} \cup { {n} : n \in 1..MaxLines },
        e \in BOOLEAN }

OutDirs == { <<"o","/">>, <<"o">> }

\* the exporter switched on, as root and as an ordinary user
MetricsOn ==
    { [url |-> "", host |-> h, m |-> [metrics |-> "h", metric_out |-> o]] :
        h \in {Linux, Darwin}, o \in OutDirs }

\* the exporter with one setting or both missing
MetricsOff ==
    { [url |-> "", host |-> Linux, m |-> m] :
        m \in { [metrics |-> "", metric_out |-> <<"o","/">>],
                [metrics |-> "h", metric_out |-> <<>>], NoMetrics } }

MetricsLists == { <<Tok_create, Tok_stat>>, <<<<"r","m">>, Tok_stat>> }

\* every scrape on one worker and one list; the fixed text on two workers,
\* with the exporter on or off and with calls that may fail
InitMetrics ==
    \/ InitWith({<<Tok_create, Tok_stat>>}, {1}, {1}, MetricsOn, {FALSE}, FALSE,
                { sc \in Scrapes : sc.long \subseteq 1..Len(sc.body) })
    \/ InitWith(MetricsLists, {2}, {1}, MetricsOn \cup MetricsOff, BOOLEAN, FALSE,
                { FixedScrape, [FixedScrape EXCEPT !.outExists = TRUE] })

\* the lists of the runs checked for termination: all four kinds, repeats,
\* a refused token, a repeat count that wraps, and no step at all
FairLists ==
    { RoundTrip,
      <<Star(Tok_create, <<"2">>), Star(<<"d">>, <<"2">>)>>,
      <<Tok_stat, Tok_bogus>>,
      <<Star(<<"c">>, <<"-","1">>)>>,
      <<>> }

FairSetups ==
    { [url |-> "redis", host |-> Linux, m |-> NoMetrics],
      [url |-> "", host |-> Linux, m |-> WithMetrics],
      [url |-> "", host |-> Darwin, m |-> NoMetrics] }

InitFair ==
    InitWith(FairLists, {1, 2}, {1, 2}, FairSetups, BOOLEAN, TRUE, {FixedScrape})

\* ----------------------------------------------------------- metadataBench
\* (the optional CPU profile, which touches none of the state below, is left out)
\* where the driver goes once `done` steps have been run
AfterStep(done, all) == IF done < Len(all) THEN "run" ELSE "done"

InvalidCounts_mut(threads, files) == files = 0

\* the counts for which metadataBench returns os.ErrInvalid
InvalidCounts(threads, files) == files = 0 \/ threads = 0

\* the check of the thread and file counts, and the MetaBench literal
Validate ==
    /\ pc = "start"
    /\ IF InvalidCounts(ctx.threads, ctx.files)
       THEN pc' = "invalid" /\ UNCHANGED bench
       ELSE /\ pc' = "backend"
            /\ bench' = [bench EXCEPT !.dir = ctx.path, !.threads = ctx.threads,
                                      !.files = ctx.files, !.pid = env.pid]
    /\ UNCHANGED <<ctx, env, tree, steps, pi, si, wg, tid, timer, workers,
                   crashing, calls, log, reports, warnings, exports>>

PurgeArgs_mut(uid, goos) == <<>>

\* the purge command of the host, or none on an unsupported one
PurgeArgs(uid, goos) ==
    (IF uid # 0 THEN <<"sudo">> ELSE <<>>) \o
    (IF goos = "darwin" THEN <<"purge">>
     ELSE <<"/bin/sh", "-c", "echo 3 > /proc/sys/vm/drop_caches">>)

\* the choice of the backend: the remote client, or the local purge command
SelectBackend ==
    /\ pc = "backend"
    /\ IF ctx.url # ""
       THEN pc' = "prepare" /\ bench' = [bench EXCEPT !.jfs = TRUE] /\ UNCHANGED log
       ELSE IF env.goos \notin {"darwin", "linux"}
            THEN /\ pc' = "fatal"
                 /\ log' = Append(log, Event("fatal-platform", 0))
                 /\ UNCHANGED bench
            ELSE /\ pc' = "prepare"
                 /\ bench' = [bench EXCEPT !.purgeArgs = PurgeArgs(env.uid, env.goos)]
                 /\ UNCHANGED log
    /\ UNCHANGED <<ctx, env, tree, steps, pi, si, wg, tid, timer, workers,
                   crashing, calls, reports, warnings, exports>>

Absent_mut(dirs, d) == TRUE

\* what os.Stat (jfs.Stat) followed by os.IsNotExist tells prepare about d
Absent(dirs, d) == d \notin dirs

\* the directories prepare leaves when the creation numbered f fails
\* (-1: the root, i: thread i's directory, threads: none fails)
PreparedDirs(dirs, f) ==
    dirs \cup (IF f >= 0 THEN {bench.dir} ELSE {})
         \cup { routine_dir(bench.dir, i) : i \in 0..(IF f < bench.threads THEN f - 1 ELSE bench.threads - 1) }

\* MetaBench.prepare: the root and the per-thread directories are created
\* where absent; a failed creation is fatal
Prepare ==
    /\ pc = "prepare"
    /\ \E f \in (IF env.flaky THEN (0 - 1)..bench.threads ELSE {bench.threads}) :
          /\ f = 0 - 1 => Absent(tree.dirs, bench.dir)
          /\ (f >= 0 /\ f < bench.threads) =>
                Absent(tree.dirs, routine_dir(bench.dir, f))
          /\ tree' = [tree EXCEPT !.dirs = PreparedDirs(tree.dirs, f)]
          /\ pc' = IF f < bench.threads THEN "fatal"
                   ELSE IF Len(ctx.steps) = 0 THEN "done" ELSE "parse"
          /\ log' = IF f < bench.threads THEN Append(log, Event("fatal-prepare", 0))
                    ELSE log
    /\ UNCHANGED <<ctx, env, bench, steps, pi, si, wg, tid, timer, workers,
                   crashing, calls, reports, warnings, exports>>

\* one iteration of the loop over the step tokens
ParseStep ==
    /\ pc = "parse"
    /\ pi < Len(ctx.steps)
    /\ LET s == ParseToken(ctx.steps[pi + 1])
       IN  IF s.fatal
           THEN /\ pc' = "fatal"
                /\ log' = Append(log, Event("fatal-parse", 0))
                /\ UNCHANGED <<steps, pi>>
           ELSE /\ steps' = Append(steps, [kind |-> s.kind, repeat |-> s.repeat])
                /\ pi' = pi + 1
                /\ pc' = IF pi + 1 < Len(ctx.steps) THEN "parse" ELSE "run"
                /\ UNCHANGED log
    /\ UNCHANGED <<ctx, env, tree, bench, si, wg, tid, timer, workers,
                   crashing, calls, reports, warnings, exports>>

\* ------------------------------------------------------------ MetaBench.run
AfterPurge_mut(ok) == IF ok THEN "timer" ELSE "fatal"

\* where run goes after dropCaches: a failed purge is only warned about
AfterPurge(ok) == "timer"

\* the purge before a step: dropCaches when there are purge arguments
RunPurge ==
    /\ pc = "run"
    /\ IF Len(bench.purgeArgs) > 0
       THEN \E ok \in BOOLEAN :
               /\ log' = Append(log, Event("purge", IF ok THEN 1 ELSE 0))
               /\ warnings' = IF ok THEN warnings ELSE warnings + 1
               /\ pc' = AfterPurge(ok)
       ELSE pc' = "timer" /\ UNCHANGED <<log, warnings>>
    /\ calls' = <<>>
    /\ workers' = [i \in Tids |-> [st |-> "none", r |-> 0, fid |-> 0, step |-> 0]]
    /\ timer' = "idle"
    /\ UNCHANGED <<ctx, env, tree, bench, steps, pi, si, wg, tid, crashing,
                   reports, exports>>

\* wg.Add(threads) and start := time.Now()
StartTimer ==
    /\ pc = "timer"
    /\ wg' = bench.threads
    /\ timer' = "running"
    /\ tid' = 0
    /\ log' = Append(log, Event("start", 0))
    /\ pc' = "spawn"
    /\ UNCHANGED <<ctx, env, tree, bench, steps, pi, si, workers, crashing,
                   calls, reports, warnings, exports>>

Spawn_mut ==
    /\ pc = "spawn"
    /\ tid < bench.threads
    /\ tid > 0 => workers[tid - 1].st = "exited"
    /\ workers' = [workers EXCEPT ![tid] = [st |-> "running", r |-> 0, fid |-> 0, step |-> si]]
    /\ tid' = tid + 1
    /\ pc' = IF tid + 1 < bench.threads THEN "spawn" ELSE "wait"
    /\ UNCHANGED <<ctx, env, tree, bench, steps, pi, si, wg, timer, crashing,
                   calls, log, reports, warnings, exports>>

\* one `go func(i)` of the launch loop
Spawn ==
    /\ pc = "spawn"
    /\ tid < bench.threads
    /\ workers' = [workers EXCEPT ![tid] = [st |-> "running", r |-> 0, fid |-> 0, step |-> si]]
    /\ tid' = tid + 1
    /\ pc' = IF tid + 1 < bench.threads THEN "spawn" ELSE "wait"
    /\ UNCHANGED <<ctx, env, tree, bench, steps, pi, si, wg, timer, crashing,
                   calls, log, reports, warnings, exports>>

Cur == steps[si + 1]

MustFail_mut(kind, fn) == kind = stepCreate /\ fn \notin tree.files

\* whether the operation of a kind on fn must fail: stat, open and remove
\* need the file
MustFail(kind, fn) == kind # stepCreate /\ fn \notin tree.files

\* whether it may fail: when it must, when the host is flaky, and on the remote
\* client, whose answer to the creation of an existing file is its own
MayFail(jfs, kind, fn) ==
    \/ MustFail(kind, fn)
    \/ env.flaky
    \/ (jfs /\ kind = stepCreate /\ fn \in tree.files)

Effect_mut(kind, fn) ==
    IF kind = stepCreate THEN tree.files \cup {fn} ELSE tree.files

\* the files after a successful operation
Effect(kind, fn) ==
    IF kind = stepCreate THEN tree.files \cup {fn}
    ELSE IF kind = stepRemove THEN tree.files \ {fn}
    ELSE tree.files

\* how b.funcs[kind] ends the process on an error
FailMode(jfs, kind) ==
    IF jfs \/ kind = stepCreate THEN "fatal" ELSE "panic"

AfterFailure_mut(w) == w

\* the worker whose operation failed: it never returns from stepFunc
AfterFailure(w) == [w EXCEPT !.st = "failed"]

Called(fn) == IF fn \in DOMAIN calls THEN calls[fn] ELSE [n |-> 0, by |-> {}]

Record(fn, i) ==
    [p \in DOMAIN calls \cup {fn} |->
        IF p = fn THEN [n |-> Called(fn).n + 1, by |-> Called(fn).by \cup {i}]
        ELSE calls[p]]

Advance_mut(w) ==
    IF w.fid + 2 < bench.files THEN [w EXCEPT !.fid = w.fid + 1]
    ELSE [w EXCEPT !.r = w.r + 1, !.fid = 0]

\* the position after an operation: the next file, or the next pass
Advance(w) ==
    IF w.fid + 1 < bench.files THEN [w EXCEPT !.fid = w.fid + 1]
    ELSE [w EXCEPT !.r = w.r + 1, !.fid = 0]

\* one stepFunc(fn) of worker i
WorkerOp(i) ==
    /\ pc \in {"spawn", "wait"}
    /\ workers[i].st = "running"
    /\ workers[i].r < Cur.repeat
    /\ workers[i].r < RunCap
    /\ LET fn == filename(routine_dir(bench.dir, i), workers[i].fid)
       IN  /\ calls' = Record(fn, i)
           /\ \E fail \in BOOLEAN :
                 /\ fail => MayFail(bench.jfs, Cur.kind, fn)
                 /\ ~fail => ~MustFail(Cur.kind, fn)
                 /\ IF fail
                    THEN /\ workers' = [workers EXCEPT ![i] = AfterFailure(workers[i])]
                         /\ crashing' = FailMode(bench.jfs, Cur.kind)
                         /\ UNCHANGED tree
                    ELSE /\ workers' = [workers EXCEPT ![i] = Advance(workers[i])]
                         /\ tree' = [tree EXCEPT !.files = Effect(Cur.kind, fn)]
                         /\ UNCHANGED crashing
    /\ UNCHANGED <<ctx, env, pc, bench, steps, pi, si, wg, tid, timer, log,
                   reports, warnings, exports>>

LoopsDone_mut(w) == w.r > Cur.repeat

\* whether a worker has left its loops
LoopsDone(w) == w.r >= Cur.repeat

\* wg.Done() of worker i, after its loops
WorkerDone(i) ==
    /\ pc \in {"spawn", "wait"}
    /\ workers[i].st = "running"
    /\ LoopsDone(workers[i])
    /\ workers' = [workers EXCEPT ![i].st = "exited"]
    /\ wg' = wg - 1
    /\ UNCHANGED <<ctx, env, tree, pc, bench, steps, pi, si, tid, timer,
                   crashing, calls, log, reports, warnings, exports>>

\* the process ends after a failed operation (os.Exit of Fatalf, or the panic)
ProcessExit ==
    /\ crashing # ""
    /\ pc \notin Terminal
    /\ pc' = "aborted"
    /\ UNCHANGED <<ctx, env, tree, bench, steps, pi, si, wg, tid, timer, workers,
                   crashing, calls, log, reports, warnings, exports>>

Joined_mut == wg <= 1

\* whether wg.Wait() returns
Joined == wg = 0

\* wg.Wait() returns and cost := time.Since(start)
Wait ==
    /\ pc = "wait"
    /\ Joined
    /\ timer' = "stopped"
    /\ log' = Append(log, Event("stop", 0))
    /\ pc' = "report"
    /\ UNCHANGED <<ctx, env, tree, bench, steps, pi, si, wg, tid, workers,
                   crashing, calls, reports, warnings, exports>>

Total_mut(threads, files, repeat) == (threads * files) % UintMod

\* total := b.threads * b.files * repeat
Total(threads, files, repeat) == (threads * files * repeat) % UintMod

\* the throughput line of the step
Report ==
    /\ pc = "report"
    /\ LET total == Total(bench.threads, bench.files, Cur.repeat)
       IN  /\ reports' = Append(reports, [step |-> si, kind |-> Cur.kind, total |-> total])
           /\ log' = Append(log, Event("report", total))
    /\ pc' = "metrics"
    /\ UNCHANGED <<ctx, env, tree, bench, steps, pi, si, wg, tid, timer, workers,
                   crashing, calls, warnings, exports>>

\* the name of the metrics file of a step
MetricsFile(out, pid, idx, step) ==
    out \o Itoa(pid) \o <<"-">> \o Itoa(idx) \o <<"-">> \o step

ExportOff_mut(url, out) == url = "" /\ out = <<>>

\* the early return of outputMetrics: a setting is missing
ExportOff(url, out) == url = "" \/ out = <<>>

\* os.Create refuses the file: the directory it goes to is the output
\* directory, which os.MkdirAll had to make and made with mode 0666, without
\* the search permission, and the user is not root
CreateDenied(out, file) ==
    /\ ~env.outExists
    /\ env.uid # 0
    /\ DirOf(file) = CleanDir(out)

\* MetaBench.outputMetrics, and the end of the loop body
OutputMetrics ==
    /\ pc = "metrics"
    /\ IF ExportOff(ctx.metrics, ctx.metric_out)
       THEN /\ UNCHANGED <<exports, log>>
            /\ si' = si + 1
            /\ pc' = AfterStep(si + 1, steps)
       ELSE \E fail \in (IF env.flaky THEN BOOLEAN ELSE {FALSE}) :
               IF fail \/ CreateDenied(ctx.metric_out,
                                        MetricsFile(ctx.metric_out, bench.pid, si,
                                                    stepNames[Cur.kind + 1]))
               THEN /\ pc' = "fatal"
                    /\ log' = Append(log, Event("fatal-metrics", 0))
                    /\ UNCHANGED <<exports, si>>
               ELSE /\ exports' = Append(exports,
                          [step |-> si, dir |-> ctx.metric_out,
                           file |-> MetricsFile(ctx.metric_out, bench.pid, si,
                                                stepNames[Cur.kind + 1]),
                           lines |-> FilterLines(ScanLines(env.body, env.long))])
                    /\ log' = Append(log, Event("export", 0))
                    /\ si' = si + 1
                    /\ pc' = AfterStep(si + 1, steps)
    /\ UNCHANGED <<ctx, env, tree, bench, steps, pi, wg, tid, timer, workers,
                   crashing, calls, reports, warnings>>

Next ==
    \/ Validate
    \/ SelectBackend
    \/ Prepare
    \/ ParseStep
    \/ RunPurge
    \/ StartTimer
    \/ Spawn
    \/ \E i \in Tids : WorkerOp(i)
    \/ \E i \in Tids : WorkerDone(i)
    \/ ProcessExit
    \/ Wait
    \/ Report
    \/ OutputMetrics

Spec == Init /\ [][Next]_vars

\* the runs of one thread and one file over the parsing tokens
SpecParse == InitParse /\ [][Next]_vars

\* the steps of the driver goroutine, and the exit of a crashing process
Driver ==
    \/ Validate
    \/ SelectBackend
    \/ Prepare
    \/ ParseStep
    \/ RunPurge
    \/ StartTimer
    \/ Spawn
    \/ ProcessExit
    \/ Wait
    \/ Report
    \/ OutputMetrics

\* the Go scheduler lets every goroutine that can run take its next step
Fairness ==
    /\ WF_vars(Driver)
    /\ \A i \in 0..(MaxThreads - 1) :
          /\ WF_vars(i \in Tids /\ WorkerOp(i))
          /\ WF_vars(i \in Tids /\ WorkerDone(i))

SpecFair == InitFair /\ [][Next]_vars /\ Fairness

\* the exporter over every metrics text and output directory
SpecMetrics == InitMetrics /\ [][Next]_vars

\* ================================================================ properties
RECURSIVE SumCalls(_)
SumCalls(ps) ==
    IF ps = {} THEN 0
    ELSE LET p == CHOOSE q \in ps : TRUE
         IN  calls[p].n + SumCalls(ps \ {p})

PathOf(i, j) == filename(routine_dir(bench.dir, i), j)

Fids == 0..(bench.files - 1)

LastReport == reports[Len(reports)]

LogHas(ev, k) == \E n \in 1..Len(log) : log[n].ev = ev /\ log[n].step = k

CountLog(ev, k) == Cardinality({ n \in 1..Len(log) : log[n].ev = ev /\ log[n].step = k })

\* C1: once a step is reported, its total is threads * files * repeat, that is
\* the number of invocations the workers made; every (thread, file) pair got
\* exactly repeat invocations and no other path got any.
C1_TotalIsWork ==
    pc = "metrics" =>
        /\ LastReport.step = si
        /\ LastReport.total = bench.threads * bench.files * Cur.repeat
        /\ SumCalls(DOMAIN calls) = LastReport.total
        /\ \A i \in Tids, j \in Fids : Called(PathOf(i, j)).n = Cur.repeat
        /\ \A p \in DOMAIN calls : \E i \in Tids, j \in Fids : p = PathOf(i, j)

C1_Witness ==
    /\ pc = "metrics"
    /\ bench.threads = 2 /\ bench.files = 2 /\ Cur.repeat = 2
    /\ SumCalls(DOMAIN calls) = 8

\* a worker that still has an operation of the running step to perform
HasOpLeft(w) == w.st \in {"none", "running"} /\ w.r < Cur.repeat

\* C2: the elapsed time is taken and the step reported only after every
\* worker has finished its whole repeat x files loop and called Done.
C2_JoinBarrier ==
    (pc \in {"report", "metrics"} \/ Len(reports) > si) =>
        \A i \in Tids :
            /\ ~HasOpLeft(workers[i])
            /\ workers[i].st = "exited"
            /\ \A j \in Fids : Called(PathOf(i, j)).n = Cur.repeat

C2_Witness ==
    /\ pc = "report"
    /\ timer = "stopped"
    /\ bench.threads = 2 /\ bench.files = 2 /\ Cur.repeat = 2
    /\ \A i \in Tids : workers[i].st = "exited"

\* thread and file indices over which the path functions are compared
MaxIdx == 11

PathsDisjoint ==
    \A d \in {<<"/">>, <<"/","m">>} :
        \A i \in 0..MaxIdx, j \in 0..MaxIdx :
            i # j => \A a \in 0..MaxIdx, b \in 0..MaxIdx :
                        filename(routine_dir(d, i), a) # filename(routine_dir(d, j), b)

\* C3: paths of distinct thread indices differ for all file indices, and no
\* path is ever operated on by two different workers.
C3_Disjoint ==
    /\ PathsDisjoint
    /\ \A p \in DOMAIN calls : Cardinality(calls[p].by) = 1
    /\ \A i \in Tids, j \in Tids : \A a \in 0..(ctx.files - 1), b \in 0..(ctx.files - 1) :
          (i # j /\ pc \notin {"start", "invalid"}) => PathOf(i, a) # PathOf(j, b)

C3_Witness ==
    /\ bench.threads = 2
    /\ \E p \in DOMAIN calls, q \in DOMAIN calls :
          calls[p].by = {0} /\ calls[q].by = {1}
    /\ \A i \in Tids : workers[i].st = "running" /\ workers[i].r = 1

Crashed == crashing # ""

\* C4: once an operation has failed the run is ending: the failing worker
\* made that attempt once and makes no other, the driver stays behind the
\* join, the step is neither timed, reported nor exported, no later step
\* starts, and the process exit is all that is left; on both backends.
C4_FatalOnFailure ==
    Crashed =>
        /\ \E i \in Tids : workers[i].st = "failed"
        /\ \A i \in Tids :
              workers[i].st = "failed" =>
                  Called(PathOf(i, workers[i].fid)).n = workers[i].r + 1
        /\ crashing = FailMode(bench.jfs, Cur.kind)
        /\ pc \in {"spawn", "wait", "aborted"}
        /\ wg > 0
        /\ Len(reports) = si
        /\ ~LogHas("stop", si) /\ ~LogHas("report", si) /\ ~LogHas("export", si)
        /\ \A n \in 1..Len(log) : log[n].step <= si
        /\ \A e \in 1..Len(exports) : exports[e].step < si
        /\ (pc = "aborted" \/ ENABLED ProcessExit)

C4_Witness ==
    /\ pc = "aborted"
    /\ bench.jfs
    /\ crashing = "fatal"
    /\ si = 1 /\ Len(reports) = 1
    /\ bench.threads = 2
    /\ \E i \in Tids : workers[i].st = "failed" /\ workers[i].r = 1

\* the step names of the specification
SpecNames ==
    { <<"c","r","e","a","t","e">>, <<"c">>, <<"s","t","a","t">>, <<"s">>,
      <<"o","p","e","n">>, <<"o">>, <<"r","e","m","o","v","e">>, <<"r","m">>,
      <<"r">>, <<"d","e","l","e","t","e">>, <<"d","e","l">>, <<"d">> }

TokenName(tok) ==
    LET p == IndexByte(tok, "*") IN IF p > 0 THEN SubSeq(tok, 1, p) ELSE tok

Unrecognized(tok) == TokenName(tok) \notin SpecNames

\* C6: a step list holding an unrecognized name never gets past parsing: no
\* operation of any step, no purge and no metrics export ever happens.
C6_UnknownStepFatal ==
    (\E k \in 1..Len(ctx.steps) : Unrecognized(ctx.steps[k])) =>
        /\ pc \in {"start", "invalid", "backend", "prepare", "parse", "fatal"}
        /\ calls = <<>>
        /\ tree.files = env.tree0.files
        /\ \A i \in Tids : workers[i].st = "none"
        /\ \A n \in 1..Len(log) : log[n].ev \notin {"purge", "start", "report", "export"}
        /\ warnings = 0 /\ reports = <<>> /\ exports = <<>>
        /\ (pc = "parse" /\ Unrecognized(ctx.steps[pi + 1])) =>
              (ENABLED ParseStep /\ ParseToken(ctx.steps[pi + 1]).fatal)

C6_Witness ==
    /\ pc = "fatal"
    /\ log # <<>> /\ log[Len(log)].ev = "fatal-parse"
    /\ pi = 1 /\ Len(steps) = 1
    /\ Unrecognized(ctx.steps[2])
    /\ Len(bench.purgeArgs) > 0

\* C7: every parsed step has a repeat count of at least 1, and no step is
\* run with a repeat count below 1.
C7_RepeatAtLeastOne ==
    /\ \A k \in 1..Len(steps) : steps[k].repeat >= 1
    /\ pc \in {"run", "timer", "spawn", "wait", "report", "metrics"} => Cur.repeat >= 1

\* C8: from a tree without the benchmark's files, create, stat, open, remove
\* (each once) never fails, reports threads * files for each step and ends
\* with none of the files left.
C8_RoundTrip ==
    ( /\ ctx.steps = RoundTrip
      /\ env.tree0.files = {}
      /\ ~env.flaky
      /\ ctx.threads >= 1 /\ ctx.files >= 1
      /\ (ctx.url # "" \/ env.goos \in {"linux", "darwin"}) ) =>
        /\ ~Crashed
        /\ pc \notin {"invalid", "fatal", "aborted"}
        /\ \A i \in Tids : workers[i].st # "failed"
        /\ \A k \in 1..Len(reports) : reports[k].total = ctx.threads * ctx.files
        /\ pc = "done" =>
              /\ Len(reports) = 4
              /\ \A i \in Tids, j \in 0..(ctx.files - 1) : PathOf(i, j) \notin tree.files
        /\ (pc = "done" \/ ENABLED Next)

C8_Witness ==
    /\ ctx.steps = RoundTrip
    /\ env.tree0.files = {}
    /\ ~env.flaky
    /\ ctx.threads = 2 /\ ctx.files = 2
    /\ pc = "done"
    /\ Len(reports) = 4
    /\ tree.files = {}

PurgeFailed(k) ==
    \E n \in 1..Len(log) : log[n].ev = "purge" /\ log[n].step = k /\ log[n].n = 0

\* C9: a failed purge is warned about and nothing else: the step goes on to
\* start its timer, launches all its workers, and what it performs and
\* reports is what the configuration alone determines.
C9_PurgeFailureNonFatal ==
    /\ warnings = Cardinality({ n \in 1..Len(log) : log[n].ev = "purge" /\ log[n].n = 0 })
    /\ (log # <<>> /\ log[Len(log)].ev = "purge") => (pc = "timer" /\ ENABLED StartTimer)
    /\ (pc \in {"wait", "report", "metrics"} /\ PurgeFailed(si)) =>
          (tid = bench.threads /\ \A i \in Tids : workers[i].st # "none")
    /\ (pc = "metrics" /\ PurgeFailed(si)) =>
          /\ LastReport.step = si
          /\ LastReport.total = bench.threads * bench.files * Cur.repeat
          /\ SumCalls(DOMAIN calls) = LastReport.total
          /\ \A i \in Tids, j \in Fids : Called(PathOf(i, j)).n = Cur.repeat

C9_Witness ==
    /\ pc = "metrics"
    /\ PurgeFailed(si)
    /\ warnings = 2 /\ si = 1
    /\ bench.threads = 2 /\ bench.files = 2 /\ Cur.repeat = 2
    /\ LastReport.total = 8

\* C10: on the local backend each step runs exactly one purge, whatever its
\* repeat count, and that purge precedes the start of the timer and every
\* operation of the step; on the remote backend there are no purge
\* arguments and no purge is ever run.
C10_PurgeScheduling ==
    /\ ctx.url # "" =>
          /\ bench.purgeArgs = <<>>
          /\ warnings = 0
          /\ \A n \in 1..Len(log) : log[n].ev # "purge"
    /\ ctx.url = "" =>
          /\ \A n \in 1..Len(log) :
                log[n].ev = "start" =>
                    (n > 1 /\ log[n - 1].ev = "purge" /\ log[n - 1].step = log[n].step)
          /\ \A k \in 0..(si - 1) : CountLog("purge", k) = 1
          /\ CountLog("purge", si) <= 1
          /\ pc = "run" =>
                /\ CountLog("purge", si) = 0
                /\ timer # "running"
                /\ \A i \in Tids : workers[i].st # "running"
          /\ (pc \in {"timer", "spawn", "wait", "report", "metrics"} \/ Crashed) =>
                CountLog("purge", si) = 1
          /\ pc = "timer" => (calls = <<>> /\ \A i \in Tids : workers[i].st = "none")

C10_Witness ==
    /\ ctx.url = ""
    /\ pc = "metrics"
    /\ si = 1
    /\ Cur.repeat = 2
    /\ CountLog("purge", 0) = 1 /\ CountLog("purge", 1) = 1
    /\ SumCalls(DOMAIN calls) = 8

\* the kind the specification gives each step name
SpecKind(name) ==
    IF name \in {<<"c","r","e","a","t","e">>, <<"c">>} THEN stepCreate
    ELSE IF name \in {<<"s","t","a","t">>, <<"s">>} THEN stepStat
    ELSE IF name \in {<<"o","p","e","n">>, <<"o">>} THEN stepOpen
    ELSE stepRemove

\* the largest repeat count written in a token
MaxN == 12

\* each token `name` or `name*N` with the step the specification gives it
SpecSteps ==
    { [tok |-> name, kind |-> SpecKind(name), repeat |-> 1] : name \in SpecNames } \cup
    { [tok |-> Star(x[1], Itoa(x[2])), kind |-> SpecKind(x[1]), repeat |-> x[2]] :
        x \in SpecNames \X (1..MaxN) }

ValidTokens == { e.tok : e \in SpecSteps }

\* C5: a token `name` or `name*N` parses to the kind of its name with repeat
\* N, or 1 without a suffix; it is never refused; and the parsed list has the
\* length and the order of the tokens.
C5_TokenParsing ==
    /\ Len(steps) = pi /\ pi <= Len(ctx.steps)
    /\ \A k \in 1..Len(steps) : \A e \in SpecSteps :
          ctx.steps[k] = e.tok => steps[k] = [kind |-> e.kind, repeat |-> e.repeat]
    /\ pc \in {"run", "timer", "spawn", "wait", "report", "metrics", "aborted", "done"} =>
          Len(steps) = Len(ctx.steps)
    /\ (pc = "fatal" /\ log # <<>> /\ log[Len(log)].ev = "fatal-parse") =>
          ctx.steps[pi + 1] \notin ValidTokens
    /\ \A k \in 1..Len(reports) : reports[k].kind = steps[k].kind

C5_Witness ==
    /\ ctx.steps = <<Star(<<"d","e","l">>, <<"1","0">>), <<"r">>>>
    /\ steps = <<[kind |-> stepRemove, repeat |-> 10], [kind |-> stepRemove, repeat |-> 1]>>
    /\ pc = "run"

\* the state in which prepare has returned to metadataBench
Prepared ==
    /\ pc \notin {"start", "invalid", "backend", "prepare"}
    /\ ~LogHas("fatal-platform", 0)
    /\ ~LogHas("fatal-prepare", 0)

\* C11: prepare on a tree whose root and per-thread directories all exist,
\* with or without files, is never fatal, creates no directory and leaves the
\* directories and the files as they were; and on any tree a second prepare
\* after a first finds nothing absent and gives the tree of the first.
C11_PrepareIdempotent ==
    /\ (AllDirs(ctx.path, ctx.threads) \subseteq env.tree0.dirs
            /\ pc \notin {"start", "invalid", "backend", "prepare"}) =>
          /\ ~LogHas("fatal-prepare", 0)
          /\ tree.dirs = env.tree0.dirs
          /\ (si = 0 /\ calls = <<>>) => tree.files = env.tree0.files
    /\ Prepared =>
          /\ \A d \in AllDirs(bench.dir, bench.threads) : ~Absent(tree.dirs, d)
          /\ \A f \in (0 - 1)..bench.threads :
                PreparedDirs(tree.dirs, f) = tree.dirs
          /\ tree.dirs = env.tree0.dirs \cup AllDirs(bench.dir, bench.threads)

C11_Witness ==
    /\ pc = "parse"
    /\ env.flaky
    /\ bench.threads = 2
    /\ env.tree0 = FullTree(bench.dir, 2, 2)
    /\ tree = env.tree0

\* a line that starts with the metadata-operation counter prefix
Wanted(line) ==
    /\ Len(line) >= Len(MetricPrefix)
    /\ \A c \in 1..Len(MetricPrefix) : line[c] = MetricPrefix[c]

WantedAt(body) == { n \in 1..Len(body) : Wanted(body[n]) }

\* the k-th smallest member of a set of positions
Nth(S, k) == CHOOSE n \in S : Cardinality({ m \in S : m <= n }) = k

\* lines holds the wanted lines of body, each once, in their order
ExactlyWanted(lines, body) ==
    /\ Len(lines) = Cardinality(WantedAt(body))
    /\ \A k \in 1..Len(lines) : lines[k] = body[Nth(WantedAt(body), k)]

\* C12: whatever the metrics text, the file written for a step holds exactly
\* the lines of the text that start with juicefs_meta_ops, each once, in
\* their order, and no other line.
C12_MetricsFiltering ==
    \A n \in 1..Len(exports) : ExactlyWanted(exports[n].lines, env.body)

\* the same statement for the texts all of whose lines fit the scanner's buffer
C12_ShortLinesFiltered ==
    env.long = {} =>
        \A n \in 1..Len(exports) : ExactlyWanted(exports[n].lines, env.body)

C12_ShortLinesWitness ==
    /\ Len(exports) = 2
    /\ env.long = {}
    /\ env.body = <<Line_c, Line_e, Line_a>>
    /\ exports[2].lines = <<Line_c, Line_a>>

\* C13: with an endpoint and an output directory configured, the export of
\* a step comes right after the report of that step, with every worker
\* joined, once per step whose loop body has ended, and before the purge,
\* the timer and the workers of the next step; with either setting missing
\* nothing is fetched and nothing is written, for any step.
C13_ExportOrdering ==
    /\ (ctx.metrics # "" /\ ctx.metric_out # <<>>) =>
          /\ \A k \in 0..(si - 1) : CountLog("export", k) = 1
          /\ \A n \in 1..Len(log) :
                /\ log[n].ev = "export" =>
                      /\ n > 1
                      /\ log[n - 1].ev = "report"
                      /\ log[n - 1].step = log[n].step
                      /\ CountLog("export", log[n].step) = 1
                /\ (log[n].ev \in {"purge", "start"} /\ log[n].step > 0) =>
                      \E m \in 1..(n - 1) :
                          log[m].ev = "export" /\ log[m].step = log[n].step - 1
          /\ Len(exports) = Cardinality({ n \in 1..Len(log) : log[n].ev = "export" })
          /\ \A n \in 1..Len(exports) : exports[n].step = n - 1
          /\ pc = "metrics" =>
                /\ LogHas("report", si) /\ Len(exports) = si
                /\ \A i \in Tids : workers[i].st = "exited"
          /\ (\E i \in Tids : workers[i].st # "none") => Len(exports) = si
    /\ (ctx.metrics = "" \/ ctx.metric_out = <<>>) =>
          /\ exports = <<>>
          /\ \A n \in 1..Len(log) : log[n].ev \notin {"export", "fatal-metrics"}

C13_Witness ==
    /\ ctx.metrics # "" /\ ctx.metric_out # <<>>
    /\ bench.threads = 2
    /\ si = 1
    /\ Len(exports) = 1
    /\ \A i \in Tids : workers[i].st = "running"

\* a run of two steps with one setting missing that has ended
C13_WitnessOff ==
    /\ ctx.metrics # "" /\ ctx.metric_out = <<>>
    /\ env.flaky
    /\ pc = "done" /\ si = 2

\* out as a prefix of the paths of its entries
WithSeparator(out) == IF out[Len(out)] = "/" THEN out ELSE out \o <<"/">>

\* file is an entry of the directory out
Inside(file, out) ==
    LET d == WithSeparator(out)
    IN  /\ Len(file) > Len(d)
        /\ SubSeq(file, 1, Len(d)) = d
        /\ \A n \in (Len(d) + 1)..Len(file) : file[n] # "/"

\* the file name made of the process id, the step index and the step name
SnapshotName(pid, idx, kind) ==
    Itoa(pid) \o <<"-">> \o Itoa(idx) \o <<"-">> \o stepNames[kind + 1]

\* the last k characters of s
Suffix(s, k) == SubSeq(s, Len(s) - k + 1, Len(s))

NamedAfterStep(e) ==
    LET name == SnapshotName(env.pid, e.step, steps[e.step + 1].kind)
    IN  Len(e.file) >= Len(name) /\ Suffix(e.file, Len(name)) = name

\* C14: whether or not the configured output directory ends with a
\* separator, the snapshot of a step is a file inside that directory, named
\* from the process id, the step index and the step name, and two steps of
\* a run never write the same file.
C14_FileLocation ==
    \A n \in 1..Len(exports) :
        /\ Inside(exports[n].file, ctx.metric_out)
        /\ NamedAfterStep(exports[n])
        /\ \A m \in 1..Len(exports) : m # n => exports[m].file # exports[n].file

\* what holds of every output directory: the name and the distinctness; the
\* file is inside when the directory was given with its separator
C14_NamedDistinct ==
    \A n \in 1..Len(exports) :
        /\ NamedAfterStep(exports[n])
        /\ \A m \in 1..Len(exports) : m # n => exports[m].file # exports[n].file
        /\ ctx.metric_out[Len(ctx.metric_out)] = "/" =>
              Inside(exports[n].file, ctx.metric_out)

C14_NamedDistinctWitness ==
    /\ Len(exports) = 2
    /\ ctx.metric_out = <<"o", "/">>
    /\ env.uid # 0

\* C15: with a thread count or a file count of zero the command returns its
\* error before anything is executed: no directory is created, no purge is
\* run, no step is parsed or started and no operation is performed; and the
\* error is returned for those counts only.
C15_ZeroRejected ==
    /\ (ctx.threads = 0 \/ ctx.files = 0) =>
          /\ pc \in {"start", "invalid"}
          /\ tree = env.tree0
          /\ log = <<>> /\ warnings = 0
          /\ calls = <<>> /\ steps = <<>>
          /\ reports = <<>> /\ exports = <<>>
          /\ bench.purgeArgs = <<>>
          /\ \A i \in DOMAIN workers : workers[i].st = "none"
    /\ pc = "invalid" => (ctx.threads = 0 \/ ctx.files = 0)

C15_Witness ==
    /\ pc = "invalid"
    /\ ctx.threads = 0 /\ ctx.files = 2
    /\ Len(ctx.steps) = 2
    /\ env.tree0.dirs = {}

\* a step in which the invocation counts of the running step change: one
\* path of one worker gets one more invocation, and it is the file with the
\* lowest index among that worker's files that are behind in the current pass
InOrder ==
    (calls' # calls /\ calls' # <<>>) =>
        \E i \in Tids, j \in Fids :
            LET p == PathOf(i, j)
            IN  /\ p \in DOMAIN calls'
                /\ calls'[p].n = Called(p).n + 1
                /\ \A q \in DOMAIN calls' \ {p} :
                      q \in DOMAIN calls /\ calls'[q] = calls[q]
                /\ \A k \in Fids : k < j => Called(PathOf(i, k)).n = Called(p).n + 1
                /\ \A k \in Fids : k > j => Called(PathOf(i, k)).n = Called(p).n

\* C16: a worker issues its operations one at a time, on the files 0 to
\* files-1 in ascending order, and ends a whole pass over the files before
\* the next repeat starts: no file gets its invocation of pass r+1 while a
\* file of the same worker is still without its invocation of pass r.
C16_WorkerOrder == [][InOrder]_vars

C16_Witness ==
    /\ pc = "wait"
    /\ bench.threads = 2 /\ bench.files = 2
    /\ Cur.repeat = 2
    /\ workers[0].st = "running" /\ workers[0].r = 1 /\ workers[0].fid = 1
    /\ Called(PathOf(0, 0)).n = 2 /\ Called(PathOf(0, 1)).n = 1
    /\ workers[1].st = "running" /\ workers[1].r = 0 /\ workers[1].fid = 1

Live == { i \in DOMAIN workers : workers[i].st = "running" }

\* C17: the steps run one at a time, in the order of the list: a worker
\* that is running or has failed belongs to the step the driver is in, which
\* has been started and not yet joined; past the join of a step every one of
\* its workers has exited; at most `threads` workers are live; a step starts
\* only after the step before it was joined, and the reports come in the
\* order of the tokens.
C17_OneStepAtATime ==
    /\ \A i \in DOMAIN workers :
          workers[i].st \in {"running", "failed"} =>
              /\ workers[i].step = si
              /\ pc \in {"spawn", "wait", "aborted"}
              /\ LogHas("start", si) /\ ~LogHas("stop", si)
    /\ Cardinality(Live) <= bench.threads
    /\ pc \in {"report", "metrics"} =>
          \A i \in Tids : workers[i].st = "exited" /\ workers[i].step = si
    /\ pc \in {"spawn", "wait", "aborted", "report", "metrics"} =>
          \A p \in DOMAIN calls : \A i \in calls[p].by :
              workers[i].st # "none" /\ workers[i].step = si
    /\ \A n \in 1..Len(log) :
          (log[n].ev = "start" /\ log[n].step > 0) =>
              \E m \in 1..(n - 1) : log[m].ev = "stop" /\ log[m].step = log[n].step - 1
    /\ Len(reports) \in {si, si + 1}
    /\ \A n \in 1..Len(reports) :
          reports[n].step = n - 1 /\ reports[n].kind = steps[n].kind

C17_Witness ==
    /\ pc = "wait"
    /\ si = 1 /\ Len(reports) = 1
    /\ bench.threads = 2
    /\ \A i \in Tids : workers[i].st = "running" /\ workers[i].step = 1
    /\ DOMAIN calls # {}

\* C18: the driver launches the workers of a step without waiting for any
\* of them: while it is in the launch loop the next launch is possible
\* whatever the workers already launched have done, it reaches the join only
\* with all `threads` workers launched, and a launched worker with an
\* operation left can perform it whatever the other workers are doing.
C18_FanOut ==
    /\ pc = "spawn" => (tid < bench.threads /\ ENABLED Spawn)
    /\ pc = "wait" =>
          /\ tid = bench.threads
          /\ \A i \in Tids : workers[i].st # "none"
    /\ pc \in {"spawn", "wait"} =>
          \A i \in Tids :
              (workers[i].st = "running" /\ workers[i].r < Cur.repeat
                   /\ workers[i].r < RunCap) => ENABLED WorkerOp(i)

\* both workers active with operations pending, the second launched while
\* the first had done nothing, and ahead of it by a whole pass
C18_Witness ==
    /\ pc = "wait"
    /\ bench.threads = 2 /\ bench.files = 2
    /\ Cur.repeat = 2
    /\ \A i \in Tids : workers[i].st = "running"
    /\ workers[0].r = 0 /\ workers[0].fid = 0
    /\ workers[1].r = 1 /\ workers[1].fid = 1

\* the tokens of the specification whose repeat count is within RunCap
BoundedTokens == { e.tok : e \in { x \in SpecSteps : x.repeat <= RunCap } }

\* a configuration the command accepts, with repeat counts that are explored
ValidConfig ==
    /\ ctx.threads >= 1 /\ ctx.files >= 1
    /\ ctx.url # "" \/ env.goos \in {"linux", "darwin"}
    /\ \A k \in 1..Len(ctx.steps) : ctx.steps[k] \in BoundedTokens

\* an operation, a directory creation or an export has failed
SomethingFailed == Crashed \/ pc \in {"fatal", "aborted"}

\* every token was run as one step, once, in order, joined and reported
EveryStepOnce ==
    /\ si = Len(ctx.steps)
    /\ Len(reports) = Len(ctx.steps)
    /\ \A k \in 0..(Len(ctx.steps) - 1) :
          /\ CountLog("start", k) = 1
          /\ CountLog("stop", k) = 1
          /\ CountLog("report", k) = 1
          /\ reports[k + 1].step = k

\* C19: under fair scheduling a run of a valid configuration in which
\* nothing fails gets every step past its join and its report and ends,
\* having run one step per token of the list, each exactly once.
C19_Termination ==
    /\ ValidConfig ~> (pc = "done" \/ SomethingFailed)
    /\ [](pc = "done" => EveryStepOnce)

C19_Witness ==
    /\ pc = "done"
    /\ ctx.steps = RoundTrip
    /\ bench.threads = 2 /\ bench.files = 2
    /\ env.flaky
    /\ Len(reports) = 4

\* the driver is in step si of a run on the local backend in which only
\* the state of the namespace makes an operation fail
InLocalStep ==
    /\ ctx.url = "" /\ ~env.flaky
    /\ pc \in {"run", "timer", "spawn", "wait", "report", "metrics", "aborted"}
    /\ si < Len(steps)

\* the namespace the first step starts on holds every file, or lacks one
StartsFull == AllFiles(ctx.path, ctx.threads, ctx.files) \subseteq env.tree0.files

Reported(k) == Len(reports) > k

\* stat, open and remove fail exactly on a missing file and create never fails
FailsOnMissingOnly ==
    /\ \A i \in Tids :
          workers[i].st = "failed" =>
              /\ Cur.kind # stepCreate
              /\ PathOf(i, workers[i].fid) \notin tree.files
    /\ (Cur.kind \in {stepStat, stepOpen} /\ pc \in {"spawn", "wait", "report", "metrics"}) =>
          \A i \in Tids, j \in Fids :
              (Called(PathOf(i, j)).n > 0
                   /\ ~(workers[i].st = "failed" /\ workers[i].fid = j)) =>
                  PathOf(i, j) \in tree.files

\* a remove step with repeat >= 2 is never reported; on a full namespace its
\* workers get through the first pass and fail on file 0 of the second
RemoveTwiceAborts ==
    (Cur.kind = stepRemove /\ Cur.repeat >= 2) =>
        /\ ~Reported(si)
        /\ pc # "run" => \A i \in Tids : workers[i].r <= 1
        /\ (si = 0 /\ StartsFull) =>
              \A i \in Tids :
                  workers[i].st = "failed" => (workers[i].r = 1 /\ workers[i].fid = 0)

\* create, stat and open on a full namespace never fail
FullNamespaceCompletes ==
    (si = 0 /\ StartsFull /\ Cur.kind \in {stepCreate, stepStat, stepOpen}) => ~Crashed

\* C20: on the local backend stat, open and remove fail on a missing file
\* and create succeeds whether or not the file exists; so a remove step with
\* repeat >= 2 aborts in its second pass and reports nothing, a stat, open
\* or remove step on a namespace with a missing file aborts and reports
\* nothing, and create, stat and open on a full namespace do not fail.
C20_OperationPreconditions ==
    InLocalStep =>
        /\ FailsOnMissingOnly
        /\ RemoveTwiceAborts
        /\ (si = 0 /\ ~StartsFull /\ Cur.kind # stepCreate) => ~Reported(0)
        /\ FullNamespaceCompletes

\* the same with the second statement kept to steps that perform an operation
C20_WithPositiveRepeat ==
    InLocalStep =>
        /\ FailsOnMissingOnly
        /\ RemoveTwiceAborts
        /\ (si = 0 /\ ~StartsFull /\ Cur.kind # stepCreate /\ Cur.repeat >= 1) =>
              ~Reported(0)
        /\ FullNamespaceCompletes

\* a remove*2 step on a full namespace: both workers through their first
\* pass, one of them failed on file 0 of its second
C20_WitnessRemoveTwice ==
    /\ InLocalStep /\ si = 0 /\ StartsFull
    /\ Cur.kind = stepRemove /\ Cur.repeat = 2
    /\ bench.threads = 2 /\ bench.files = 2
    /\ workers[0].st = "failed" /\ workers[0].r = 1
    /\ workers[1].st = "running" /\ workers[1].r = 1
    /\ tree.files = {}

====
